---- MODULE Spec2Model ----
(***************************************************************************)
(* WebSocket echo server with LED feedback, in its two firmware variants:  *)
(*   - ESP-IDF:  Simple/ESP-IDF/main/main.cpp        (echo_handler)        *)
(*   - Arduino:  Simple/Arduino/WebsocketExample.ino (webSocketEvent)      *)
(* and the remote client of Simple/Lens Studio/.../WebsocketTest.ts.       *)
(*                                                                         *)
(* The variable platform selects the firmware that runs on the device.     *)
(* The ESP-IDF handler is stepped at each call into the HTTP server        *)
(* library (length probe, payload read, frame send), whose outcome is      *)
(* chosen by the transport.  The Arduino callback runs inside one call of  *)
(* webSocket.loop().                                                       *)
(***************************************************************************)
EXTENDS Integers, Sequences, FiniteSets, TLC

\* ------------------------------------------------------------------ bounds
\* Frames the clients send in total during one run.
MaxFrames == 2
\* Frames that may wait unread on one connection.
MaxInbox == 2
\* Times the Arduino sketch may run connectToWiFi during one run.
MaxAttach == 2
\* Echoes sent by the parallel handler contexts of SpecPar.
MaxParEchoes == 3

\* --------------------------------------------------------------- universe
Platforms == {"idf", "arduino"}
\* Two clients, as in the concurrent-connections scenario.
Conns == {"A", "B"}
\* Data opcodes a client sends: socket.send(string) and socket.send(Uint8Array).
Opcodes == {"text", "bin"}
\* Payloads a client sends: empty, one byte, two bytes.
Payloads == {<<>>, <<77>>, <<77, 50>>}
Frames == [op : Opcodes, payload : Payloads]
NoFrame == [op |-> "none", payload |-> <<>>]

VARIABLES
    platform,   \* which firmware runs
    conn,       \* conn[c]: "none", "new" (upgrade requested), "open", "closing", "closed"
    inbox,      \* inbox[c]: frames sent by client c that the server has not read yet
    nsent,      \* number of frames sent by all clients so far
    pc,         \* position of the server task inside echo_handler ("idle" outside)
    cur,        \* req: the connection the running handler was invoked for
    ws_pkt,     \* httpd_ws_frame_t ws_pkt of the running handler
    buf,        \* std::vector<uint8_t> buf of the running handler
    led_state,  \* ESP-IDF: static int led_state
    ledState,   \* Arduino: int ledState
    gpio,       \* level last written to the LED pin
    running,    \* running[c]: handler invocations in progress for connection c
    echoes,     \* number of frames successfully sent back since boot
    cyc,        \* record of the handler invocation in progress or last completed
    phase,      \* "boot", "attach" (startup attachment), "serving", "reattach", "halted"
    wifiUp,     \* WiFi.status() == WL_CONNECTED: the device is attached to the network
    retryCount, \* connectToWiFi: int retryCount
    attaches,   \* number of times the attachment routine has been started
    bootOk,     \* the startup attachment returned with the link up
    par         \* par[c]: the handler context of connection c when handlers run
                \* in parallel contexts (SpecPar); never used by Spec

\* The variables of the startup and network-attachment code.
netVars == <<phase, wifiUp, retryCount, attaches, bootOk>>

vars == <<platform, conn, inbox, nsent, pc, cur, ws_pkt, buf, led_state,
          ledState, gpio, running, echoes, cyc, netVars, par>>

\* ----------------------------------------------------- invocation records
\* What one invocation of the handler did: the request it was invoked for,
\* the library calls it made, what it sent, how often it toggled the LED, and
\* the order in which it called send and toggled.
NoCycle ==
    [kind |-> "none", conn |-> "none", frame |-> NoFrame, probes |-> 0,
     reads |-> 0, sends |-> 0, echoTo |-> "none", echo |-> NoFrame,
     toggles |-> 0, order |-> <<>>, fault |-> "none", ret |-> "none"]

NewCycle(kind, c, f) ==
    [NoCycle EXCEPT !.kind = kind, !.conn = c, !.frame = f, !.ret = "running"]

\* ------------------------------------------------------- ESP-IDF handler
\* Variant of IsHandshake: the method test is lost, every request is a frame.
NeverHandshake(method) == FALSE

\* if (req->method == HTTP_GET)
IsHandshake(method) == method = "GET"

\* httpd_ws_frame_t ws_pkt = {}; ws_pkt.type = HTTPD_WS_TYPE_TEXT;
InitPkt == [type |-> "text", len |-> 0]

\* Variant of RecvFailed: the result of httpd_ws_recv_frame is not checked.
RecvNeverFailed(ret) == FALSE

\* if (ret != ESP_OK) ... return ret;   after either httpd_ws_recv_frame call
RecvFailed(ret) == ret # "ESP_OK"

\* if (ws_pkt.len)
HasPayload(len) == len # 0

\* Variant of NewBuf: the buffer has no margin byte.
NewBufNoMargin(len) == [i \in 1..len |-> 0]

\* std::vector<uint8_t> buf(ws_pkt.len + 1): zero-initialised, one margin byte
NewBuf(len) == [i \in 1..(len + 1) |-> 0]

\* httpd_ws_recv_frame(req, &ws_pkt, ws_pkt.len): at most max_len bytes of the
\* frame's payload are stored at ws_pkt.payload, the rest of buf is untouched.
FillBuf(b, payload, max_len) ==
    [i \in 1..Len(b) |-> IF i <= max_len /\ i <= Len(payload) THEN payload[i] ELSE b[i]]

\* if (ret == ESP_OK) after httpd_ws_send_frame: the toggle is gated on it
ToggleAfterSend(ret) == ret = "ESP_OK"

\* Variant of PinLevel: the pin is driven with the inverted state.
PinLevelInverted(led) == IF led = 0 THEN 1 ELSE 0

\* gpio_set_level(LED_GPIO, led_state) / digitalWrite(LED_PIN, ledState): the
\* level written to the pin is the LED state.
PinLevel(led) == led

\* led_state = !led_state;
Toggle(s) == IF s = 0 THEN 1 ELSE 0

\* httpd_ws_send_frame(req, &ws_pkt): the frame goes out on req's own socket
SendDest(req) == req

\* Variant of WireFrame: the type of the echo depends on the LED state.
WireFrameLedTagged(pkt, b) ==
    [op |-> IF led_state = 1 THEN "text" ELSE pkt.type, payload |-> SubSeq(b, 1, pkt.len)]

\* The frame httpd_ws_send_frame puts on the wire: ws_pkt.type, ws_pkt.len
\* bytes starting at ws_pkt.payload (= buf.data()).
WireFrame(pkt, b) == [op |-> pkt.type, payload |-> SubSeq(b, 1, pkt.len)]

\* Variant of Serving: requests are handled before the startup has finished.
ServingAlways == TRUE

\* The server handles requests once app_main has called start_webserver(),
\* resp. setup has called webSocket.begin(): after the attachment routine
\* returned.  While the Arduino sketch is inside connectToWiFi again, loop()
\* does not reach webSocket.loop().
Serving == phase = "serving"

\* Variant of UpgradeResult: every GET on the route opens a WebSocket.
UpgradesEveryGet(st) == IF st \in {"new", "plain"} THEN "open" ELSE st

\* static const httpd_uri_t ws = { .method = HTTP_GET, .is_websocket = true }:
\* after the handler returned ESP_OK for a GET, the library completes the
\* upgrade if the request asked for one ("new"); a plain GET ("plain") leaves
\* an ordinary HTTP session that never carries frames ("http").
UpgradeResult(st) ==
    IF st = "new" THEN "open" ELSE IF st = "plain" THEN "http" ELSE st

\* Variant of ServerIdle: requests are dispatched while a handler is running.
ServerAlwaysFree == TRUE

\* The HTTP server runs one task (HTTPD_DEFAULT_CONFIG): a handler is invoked
\* only when no handler is running.
ServerIdle == pc = "idle"

\* Outcomes the transport can give a library call on connection c: it can
\* succeed only while the connection is open and a frame is there to read.
RecvOutcomes(c) ==
    IF conn[c] = "open" /\ inbox[c] # <<>> THEN BOOLEAN ELSE {FALSE}

SendOutcomes(c) == IF conn[c] = "open" THEN BOOLEAN ELSE {FALSE}

\* Variant of ErrCode: a failed library call still reports ESP_OK.
ErrCodeAlwaysOk(ok) == "ESP_OK"

\* esp_err_t ret of a library call.
ErrCode(ok) == IF ok THEN "ESP_OK" ELSE "ESP_FAIL"

\* Variant of AfterReturn: an error return closes every session.
AfterReturnClosesAll(c, ret) ==
    IF ret = "ESP_OK" THEN conn
    ELSE [b \in Conns |-> IF conn[b] = "none" THEN "none" ELSE "closed"]

\* The server closes the session of a handler that returned an error.
AfterReturn(c, ret) ==
    IF ret = "ESP_OK" THEN conn
    ELSE [conn EXCEPT ![c] = IF @ = "none" THEN @ ELSE "closed"]

\* Common end of an echo_handler invocation: `return ret`.  The locals go out
\* of scope and the server task is free again.
Return(ret, rec) ==
    /\ pc' = "idle"
    /\ cur' = "none"
    /\ ws_pkt' = InitPkt
    /\ buf' = <<>>
    /\ running' = [running EXCEPT ![cur] = @ - 1]
    /\ cyc' = [rec EXCEPT !.ret = ret]
    /\ conn' = AfterReturn(cur, ret)

\* The server invokes echo_handler for a request on connection c: the GET of
\* the upgrade, or data that arrived on an open WebSocket.  Lines 41-51.
echo_handler_entry(c) ==
    /\ platform = "idf"
    /\ Serving
    /\ ServerIdle
    /\ \/ conn[c] \in {"new", "plain"}
       \/ conn[c] = "open" /\ inbox[c] # <<>>
    /\ LET method == IF conn[c] \in {"new", "plain"} THEN "GET" ELSE "WS"
           kind == CASE conn[c] = "new" -> "handshake"
                     [] conn[c] = "plain" -> "plain"
                     [] OTHER -> "frame"
           f == IF conn[c] = "open" THEN Head(inbox[c]) ELSE NoFrame
       IN IF IsHandshake(method)
          THEN \* return ESP_OK; the library completes the upgrade
               /\ cyc' = [NewCycle(kind, c, f) EXCEPT !.ret = "ESP_OK"]
               /\ conn' = [conn EXCEPT ![c] = UpgradeResult(@)]
               /\ UNCHANGED <<pc, cur, ws_pkt, running>>
          ELSE /\ ws_pkt' = InitPkt
               /\ pc' = "probe"
               /\ cur' = c
               /\ running' = [running EXCEPT ![c] = @ + 1]
               /\ cyc' = NewCycle(kind, c, f)
               /\ UNCHANGED conn
    /\ UNCHANGED <<par, netVars, platform, inbox, nsent, buf, led_state, ledState, gpio, echoes>>

\* First call: httpd_ws_recv_frame(req, &ws_pkt, 0) reads the frame header and
\* stores the frame's type and length in ws_pkt.  Lines 56-69.
echo_handler_probe ==
    /\ platform = "idf"
    /\ pc = "probe"
    /\ \E ok \in RecvOutcomes(cur) :
         LET ret == ErrCode(ok)
             pkt == IF ok
                    THEN [type |-> Head(inbox[cur]).op,
                          len |-> Len(Head(inbox[cur]).payload)]
                    ELSE ws_pkt
             rec == [cyc EXCEPT !.probes = @ + 1,
                                !.fault = IF ok THEN @ ELSE "probe"]
         IN IF RecvFailed(ret)
            THEN Return(ret, rec) /\ UNCHANGED inbox
            ELSE IF HasPayload(pkt.len)
                 THEN /\ ws_pkt' = pkt
                      /\ buf' = NewBuf(pkt.len)
                      /\ pc' = "read"
                      /\ cyc' = rec
                      /\ UNCHANGED <<cur, running, conn, inbox>>
                 ELSE \* no payload: the whole block is skipped, return ret
                      /\ Return(ret, rec)
                      /\ inbox' = IF ok THEN [inbox EXCEPT ![cur] = Tail(@)]
                                  ELSE inbox
    /\ UNCHANGED <<par, netVars, platform, nsent, led_state, ledState, gpio, echoes>>

\* Second call: httpd_ws_recv_frame(req, &ws_pkt, ws_pkt.len) reads the
\* payload into buf.  Lines 72-80.
echo_handler_read ==
    /\ platform = "idf"
    /\ pc = "read"
    /\ \E ok \in RecvOutcomes(cur) :
         LET ret == ErrCode(ok)
             rec == [cyc EXCEPT !.reads = @ + 1,
                                !.fault = IF ok THEN @ ELSE "read"]
         IN /\ inbox' = IF ok THEN [inbox EXCEPT ![cur] = Tail(@)] ELSE inbox
            /\ IF RecvFailed(ret)
               THEN Return(ret, rec)
               ELSE /\ buf' = IF ok
                              THEN FillBuf(buf, Head(inbox[cur]).payload, ws_pkt.len)
                              ELSE buf
                    /\ pc' = "send"
                    /\ cyc' = rec
                    /\ UNCHANGED <<cur, ws_pkt, running, conn>>
    /\ UNCHANGED <<par, netVars, platform, nsent, led_state, ledState, gpio, echoes>>

\* ret = httpd_ws_send_frame(req, &ws_pkt); on ESP_OK toggle the LED; return
\* ret.  Lines 83-94.
echo_handler_send ==
    /\ platform = "idf"
    /\ pc = "send"
    /\ \E ok \in SendOutcomes(cur) :
         LET ret == ErrCode(ok)
             tog == ToggleAfterSend(ret)
             rec == [cyc EXCEPT
                       !.sends = @ + 1,
                       !.echoTo = IF ok THEN SendDest(cur) ELSE "none",
                       !.echo = IF ok THEN WireFrame(ws_pkt, buf) ELSE NoFrame,
                       !.toggles = IF tog THEN @ + 1 ELSE @,
                       !.order = <<"send">> \o (IF tog THEN <<"toggle">> ELSE <<>>),
                       !.fault = IF ok \/ @ # "none" THEN @ ELSE "send"]
         IN /\ led_state' = IF tog THEN Toggle(led_state) ELSE led_state
            /\ gpio' = IF tog THEN PinLevel(led_state') ELSE gpio
            /\ echoes' = IF ok THEN echoes + 1 ELSE echoes
            /\ Return(ret, rec)
    /\ UNCHANGED <<par, netVars, platform, inbox, nsent, ledState>>

\* ------------------------------------------------------- Arduino callback
\* Variant of SendTXTDest: the echo always goes to the first client.
SendTXTToFirst(num) == "A"

\* webSocket.sendTXT(num, payload, length): a text frame of the first length
\* bytes of payload, addressed to client num.
SendTXTDest(num) == num

SendTXTFrame(payload, length) == [op |-> "text", payload |-> SubSeq(payload, 1, length)]

\* Variant of webSocketEvent: the LED is toggled when the message is
\* received, before it is echoed back.
webSocketEventToggleFirst(num, type, payload, length, led, sendOk) ==
    IF type = "WStype_TEXT"
    THEN [sends |-> 1,
          echoTo |-> IF sendOk THEN num ELSE "none",
          echo |-> IF sendOk THEN [op |-> "text", payload |-> SubSeq(payload, 1, length)]
                   ELSE NoFrame,
          toggles |-> 1,
          order |-> <<"toggle", "send">>,
          led |-> IF led = 0 THEN 1 ELSE 0]
    ELSE [sends |-> 0, echoTo |-> "none", echo |-> NoFrame, toggles |-> 0,
          order |-> <<>>, led |-> led]

\* What one call of webSocketEvent does: the frames it sends, the toggles it
\* makes and the value ledState has when it returns.  led is ledState at entry;
\* sendOk is the result of sendTXT, which the callback does not look at.
NoEffect(led) ==
    [sends |-> 0, echoTo |-> "none", echo |-> NoFrame, toggles |-> 0,
     order |-> <<>>, led |-> led]

webSocketEvent(num, type, payload, length, led, sendOk) ==
    CASE type = "WStype_DISCONNECTED" -> NoEffect(led)
      [] type = "WStype_CONNECTED" -> NoEffect(led)
      [] type = "WStype_TEXT" ->
            [sends |-> 1,
             echoTo |-> IF sendOk THEN SendTXTDest(num) ELSE "none",
             echo |-> IF sendOk THEN SendTXTFrame(payload, length) ELSE NoFrame,
             toggles |-> 1,
             order |-> <<"send", "toggle">>,
             led |-> Toggle(led)]
      [] type = "WStype_ERROR" -> NoEffect(led)
      [] OTHER -> NoEffect(led)

\* WStype_t of a received data frame.
WStypeOf(op) == IF op = "text" THEN "WStype_TEXT" ELSE "WStype_BIN"

\* The events webSocket.loop() can raise for client c in the current state:
\* the upgrade completed, a request that is no upgrade was refused and its
\* client dropped, the peer went away, or the next frame was decoded or could
\* not be decoded, which makes the library drop the client.
LoopEvents(c) ==
    CASE conn[c] = "new" ->
            {[type |-> "WStype_CONNECTED", kind |-> "handshake", frame |-> NoFrame,
              fault |-> "none", to |-> UpgradeResult("new"), take |-> FALSE]}
      [] conn[c] = "plain" ->
            {[type |-> "WStype_DISCONNECTED", kind |-> "plain", frame |-> NoFrame,
              fault |-> "none",
              to |-> IF UpgradeResult("plain") = "http" THEN "closed"
                     ELSE UpgradeResult("plain"),
              take |-> FALSE]}
      [] conn[c] = "closing" ->
            {[type |-> "WStype_DISCONNECTED", kind |-> "disconnect", frame |-> NoFrame,
              fault |-> "none", to |-> "closed", take |-> FALSE]}
      [] conn[c] = "open" /\ inbox[c] # <<>> ->
            {[type |-> WStypeOf(Head(inbox[c]).op), kind |-> "frame",
              frame |-> Head(inbox[c]), fault |-> "none", to |-> "open", take |-> TRUE],
             [type |-> "WStype_DISCONNECTED", kind |-> "frame",
              frame |-> Head(inbox[c]), fault |-> "decode", to |-> "closed", take |-> TRUE]}
      [] OTHER -> {}

\* if (WiFi.status() != WL_CONNECTED)
LinkLost(up) == ~up

\* The end of loop(): when the link is down, connectToWiFi() is called, which
\* starts with retryCount = 0.
loop_check ==
    IF LinkLost(wifiUp)
    THEN /\ attaches < MaxAttach
         /\ phase' = "reattach"
         /\ retryCount' = 0
         /\ attaches' = attaches + 1
         /\ UNCHANGED <<wifiUp, bootOk>>
    ELSE UNCHANGED netVars

\* loop(): webSocket.loop() handles one event of one client and calls
\* webSocketEvent for it; the callback has returned when webSocket.loop()
\* returns.  Then the link is checked.
webSocket_loop(c) ==
    /\ platform = "arduino"
    /\ Serving
    /\ ServerIdle
    /\ loop_check
    /\ \E ev \in LoopEvents(c), sendOk \in BOOLEAN :
         LET payload == IF ev.type = "WStype_DISCONNECTED" THEN <<>> ELSE ev.frame.payload
             eff == webSocketEvent(c, ev.type, payload, Len(payload), ledState, sendOk)
         IN /\ (sendOk = FALSE => eff.sends > 0)
            /\ ledState' = eff.led
            /\ gpio' = IF eff.toggles > 0 THEN PinLevel(eff.led) ELSE gpio
            /\ echoes' = IF eff.echo # NoFrame THEN echoes + 1 ELSE echoes
            /\ conn' = [conn EXCEPT ![c] = ev.to]
            /\ inbox' = [inbox EXCEPT ![c] = IF ev.to = "closed" THEN <<>>
                                              ELSE IF ev.take THEN Tail(@) ELSE @]
            /\ cyc' = [NewCycle(ev.kind, c, ev.frame) EXCEPT
                         !.sends = eff.sends, !.echoTo = eff.echoTo,
                         !.echo = eff.echo, !.toggles = eff.toggles,
                         !.order = eff.order,
                         !.fault = IF ev.fault # "none" THEN ev.fault
                                   ELSE IF eff.sends > 0 /\ ~sendOk THEN "send"
                                   ELSE "none",
                         !.ret = "void"]
    /\ UNCHANGED <<par, platform, nsent, pc, cur, ws_pkt, buf, led_state, running>>

\* loop() when webSocket.loop() finds nothing to do and the link is down.
loop_idle ==
    /\ platform = "arduino"
    /\ Serving
    /\ \A c \in Conns : LoopEvents(c) = {}
    /\ LinkLost(wifiUp)
    /\ loop_check
    /\ UNCHANGED <<par, platform, conn, inbox, nsent, pc, cur, ws_pkt, buf, led_state,
                   ledState, gpio, running, echoes, cyc>>

\* --------------------------------------------- startup and attachment
\* const int MAX_RETRIES = 20;
MAX_RETRIES == 20

\* app_main up to the call of wifi_connect(): NVS, then the LED pin is reset,
\* made an output and driven low.  Lines 136-157.
app_main_begin ==
    /\ platform = "idf"
    /\ phase = "boot"
    /\ gpio' = 0
    /\ phase' = "attach"
    /\ attaches' = attaches + 1
    /\ UNCHANGED <<par, platform, conn, inbox, nsent, pc, cur, ws_pkt, buf, led_state,
                   ledState, running, echoes, cyc, wifiUp, retryCount, bootOk>>

\* wifi_connect() returns: the link is up, or it gave up after its retries.
\* Then start_webserver(): httpd_start may fail, and nothing is served.
\* Lines 157-160 and 114-129.
app_main_serve ==
    /\ platform = "idf"
    /\ phase = "attach"
    /\ \E up \in BOOLEAN : wifiUp' = up /\ bootOk' = up
    /\ \E started \in BOOLEAN : phase' = IF started THEN "serving" ELSE "halted"
    /\ UNCHANGED <<par, platform, conn, inbox, nsent, pc, cur, ws_pkt, buf, led_state,
                   ledState, gpio, running, echoes, cyc, retryCount, attaches>>

\* setup() up to the call of connectToWiFi() and the start of that routine:
\* the LED pin is made an output and driven low, WiFi.begin, retryCount = 0.
\* Lines 163-182 and 124-137.
setup_begin ==
    /\ platform = "arduino"
    /\ phase = "boot"
    /\ gpio' = 0
    /\ phase' = "attach"
    /\ retryCount' = 0
    /\ attaches' = attaches + 1
    /\ UNCHANGED <<par, platform, conn, inbox, nsent, pc, cur, ws_pkt, buf, led_state,
                   ledState, running, echoes, cyc, wifiUp, bootOk>>

\* Variant of WaitMore: the loop waits for the link without a retry limit.
WaitWhileDown(up, n) == ~up

\* while (WiFi.status() != WL_CONNECTED && retryCount < MAX_RETRIES)
WaitMore(up, n) == ~up /\ n < MAX_RETRIES

\* One evaluation of the while condition of connectToWiFi, with the status
\* WiFi.status() reports at that moment: either another delay(500) and
\* retryCount++, or the routine returns.  Called from setup, the server is
\* started next (webSocket.begin, onEvent); called from loop, loop() returns.
\* Lines 140-157 and 185-190.
connectToWiFi_poll ==
    /\ platform = "arduino"
    /\ phase \in {"attach", "reattach"}
    /\ \E up \in BOOLEAN :
         /\ wifiUp' = up
         /\ IF WaitMore(up, retryCount)
            THEN /\ retryCount' = retryCount + 1
                 /\ UNCHANGED <<phase, bootOk>>
            ELSE /\ retryCount' = 0
                 /\ phase' = "serving"
                 /\ bootOk' = IF phase = "attach" THEN up ELSE bootOk
    /\ UNCHANGED <<par, platform, conn, inbox, nsent, pc, cur, ws_pkt, buf, led_state,
                   ledState, gpio, running, echoes, cyc, attaches>>

\* While the server runs, the access point accepts the station again, or the
\* link is lost.  (During the attachment routine the link is observed where
\* the routine reads WiFi.status().)
LinkUp ==
    /\ phase = "serving"
    /\ ~wifiUp
    /\ wifiUp' = TRUE
    /\ UNCHANGED <<par, platform, conn, inbox, nsent, pc, cur, ws_pkt, buf, led_state,
                   ledState, gpio, running, echoes, cyc, phase, retryCount,
                   attaches, bootOk>>

LinkDown ==
    /\ phase = "serving"
    /\ wifiUp
    /\ wifiUp' = FALSE
    /\ UNCHANGED <<par, platform, conn, inbox, nsent, pc, cur, ws_pkt, buf, led_state,
                   ledState, gpio, running, echoes, cyc, phase, retryCount,
                   attaches, bootOk>>

\* --------------------------------------------------- parallel contexts
\* Handlers of different connections in parallel execution contexts, one per
\* connection.  The echo and the statements of the toggle are separate steps:
\* led_state = !led_state reads the variable and writes it back, and
\* gpio_set_level(LED_PIN, led_state) reads it again (ledState and
\* digitalWrite in the Arduino callback).  Nothing in the code orders the
\* steps of two contexts.  A context is at "idle" outside a cycle, at "sent"
\* after its echo went out, at "loaded" after it read the LED state into reg,
\* at "stored" after it wrote the negated value back.
NoPar == [c \in Conns |-> [at |-> "idle", reg |-> 0]]

\* The send of the echo succeeded (ret == ESP_OK): the toggle follows.
par_send(c) ==
    /\ par[c].at = "idle"
    /\ echoes < MaxParEchoes
    /\ echoes' = echoes + 1
    /\ par' = [par EXCEPT ![c].at = "sent"]
    /\ UNCHANGED <<netVars, platform, conn, inbox, nsent, pc, cur, ws_pkt, buf,
                   led_state, ledState, gpio, running, cyc>>

\* The read of led_state in !led_state.
par_load(c) ==
    /\ par[c].at = "sent"
    /\ par' = [par EXCEPT ![c] = [at |-> "loaded",
                                  reg |-> IF platform = "idf" THEN led_state ELSE ledState]]
    /\ UNCHANGED <<netVars, platform, conn, inbox, nsent, pc, cur, ws_pkt, buf,
                   led_state, ledState, gpio, running, echoes, cyc>>

\* The assignment led_state = (negated value read).
par_store(c) ==
    /\ par[c].at = "loaded"
    /\ IF platform = "idf"
       THEN led_state' = Toggle(par[c].reg) /\ UNCHANGED ledState
       ELSE ledState' = Toggle(par[c].reg) /\ UNCHANGED led_state
    /\ par' = [par EXCEPT ![c].at = "stored"]
    /\ UNCHANGED <<netVars, platform, conn, inbox, nsent, pc, cur, ws_pkt, buf,
                   gpio, running, echoes, cyc>>

\* gpio_set_level(LED_PIN, led_state): the pin gets the value led_state has now.
par_write(c) ==
    /\ par[c].at = "stored"
    /\ gpio' = PinLevel(IF platform = "idf" THEN led_state ELSE ledState)
    /\ par' = [par EXCEPT ![c].at = "idle"]
    /\ UNCHANGED <<netVars, platform, conn, inbox, nsent, pc, cur, ws_pkt, buf,
                   led_state, ledState, running, echoes, cyc>>

\* ------------------------------------------------------------ the clients
\* createWebSocket(ipAddress): the client asks for the upgrade on /ws.  It
\* reaches the device only over the link.
ClientConnect(c) ==
    /\ wifiUp
    /\ conn[c] = "none"
    /\ conn' = [conn EXCEPT ![c] = "new"]
    /\ UNCHANGED <<par, netVars, platform, inbox, nsent, pc, cur, ws_pkt, buf, led_state,
                   ledState, gpio, running, echoes, cyc>>

\* A request to /ws that asks for no upgrade (a plain GET).
ClientPlainRequest(c) ==
    /\ wifiUp
    /\ conn[c] = "none"
    /\ conn' = [conn EXCEPT ![c] = "plain"]
    /\ UNCHANGED <<par, netVars, platform, inbox, nsent, pc, cur, ws_pkt, buf, led_state,
                   ledState, gpio, running, echoes, cyc>>

\* socket.send(msg) / socket.send(bytes) on an open socket.
ClientSend(c, f) ==
    /\ wifiUp
    /\ conn[c] = "open"
    /\ nsent < MaxFrames
    /\ Len(inbox[c]) < MaxInbox
    /\ inbox' = [inbox EXCEPT ![c] = Append(@, f)]
    /\ nsent' = nsent + 1
    /\ UNCHANGED <<par, netVars, platform, conn, pc, cur, ws_pkt, buf, led_state, ledState,
                   gpio, running, echoes, cyc>>

\* The socket closes (onclose): what the client had sent and the server had
\* not read is lost.  The ESP-IDF server drops the session without calling
\* the handler; the Arduino library reports WStype_DISCONNECTED later.
ClientClose(c) ==
    /\ wifiUp
    /\ conn[c] = "open"
    /\ conn' = [conn EXCEPT ![c] = IF platform = "arduino" THEN "closing" ELSE "closed"]
    /\ inbox' = [inbox EXCEPT ![c] = <<>>]
    /\ UNCHANGED <<par, netVars, platform, nsent, pc, cur, ws_pkt, buf, led_state, ledState,
                   gpio, running, echoes, cyc>>

\* ------------------------------------------------------- the specification
\* Cold boot: the statics hold their initialisers, the level of the LED pin
\* is whatever the reset left, the radio is off.
Init ==
    /\ platform \in Platforms
    /\ conn = [c \in Conns |-> "none"]
    /\ inbox = [c \in Conns |-> <<>>]
    /\ nsent = 0
    /\ pc = "idle"
    /\ cur = "none"
    /\ ws_pkt = InitPkt
    /\ buf = <<>>
    /\ led_state = 0
    /\ ledState = 0
    /\ gpio \in {0, 1}
    /\ running = [c \in Conns |-> 0]
    /\ echoes = 0
    /\ cyc = NoCycle
    /\ phase = "boot"
    /\ wifiUp = FALSE
    /\ retryCount = 0
    /\ attaches = 0
    /\ bootOk = FALSE
    /\ par = NoPar

Next ==
    \/ \E c \in Conns : echo_handler_entry(c)
    \/ echo_handler_probe
    \/ echo_handler_read
    \/ echo_handler_send
    \/ \E c \in Conns : webSocket_loop(c)
    \/ loop_idle
    \/ app_main_begin
    \/ app_main_serve
    \/ setup_begin
    \/ connectToWiFi_poll
    \/ LinkUp
    \/ LinkDown
    \/ \E c \in Conns : ClientPlainRequest(c)
    \/ \E c \in Conns : ClientConnect(c)
    \/ \E c \in Conns, f \in Frames : ClientSend(c, f)
    \/ \E c \in Conns : ClientClose(c)

Spec == Init /\ [][Next]_vars

\* Parallel contexts: the server is serving, every connection is open, the
\* LED is off, and the contexts echo and toggle on their own.
InitPar ==
    /\ platform \in Platforms
    /\ conn = [c \in Conns |-> "open"]
    /\ inbox = [c \in Conns |-> <<>>]
    /\ nsent = 0
    /\ pc = "idle"
    /\ cur = "none"
    /\ ws_pkt = InitPkt
    /\ buf = <<>>
    /\ led_state = 0
    /\ ledState = 0
    /\ gpio = 0
    /\ running = [c \in Conns |-> 0]
    /\ echoes = 0
    /\ cyc = NoCycle
    /\ phase = "serving"
    /\ wifiUp = TRUE
    /\ retryCount = 0
    /\ attaches = 1
    /\ bootOk = TRUE
    /\ par = NoPar

NextPar ==
    \/ \E c \in Conns : par_send(c)
    \/ \E c \in Conns : par_load(c)
    \/ \E c \in Conns : par_store(c)
    \/ \E c \in Conns : par_write(c)

SpecPar == InitPar /\ [][NextPar]_vars

\* The sketch keeps running: delay(500) returns, so a connectToWiFi that has
\* been entered goes on to the next evaluation of its loop condition.
SpecFair == Spec /\ WF_vars(connectToWiFi_poll)

TypeOK ==
    /\ platform \in Platforms
    /\ conn \in [Conns -> {"none", "new", "plain", "http", "open", "closing", "closed"}]
    /\ phase \in {"boot", "attach", "serving", "reattach", "halted"}
    /\ wifiUp \in BOOLEAN /\ bootOk \in BOOLEAN
    /\ retryCount \in 0..MAX_RETRIES
    /\ attaches \in 0..MaxAttach
    /\ \A c \in Conns : Len(inbox[c]) <= MaxInbox
    /\ nsent \in 0..MaxFrames
    /\ pc \in {"idle", "probe", "read", "send"}
    /\ led_state \in {0, 1} /\ ledState \in {0, 1} /\ gpio \in {0, 1}
    /\ echoes \in 0..MaxParEchoes
    /\ par \in [Conns -> [at : {"idle", "sent", "loaded", "stored"}, reg : {0, 1}]]

\* ------------------------------------------------------------ properties
\* The software LED state of the firmware that runs.
Led == IF platform = "idf" THEN led_state ELSE ledState

\* cyc describes a handler invocation that has returned.
Completed == cyc.ret \notin {"none", "running"}

\* cyc describes a completed invocation for a data frame.
FrameDone == cyc.kind = "frame" /\ Completed

\* C1: every valid frame received on an open connection (no transport fault
\* in its cycle) is sent back on the same connection with the same opcode and
\* payload, with exactly one LED toggle, before the next frame is accepted.
C1_EchoAndOneToggle ==
    (FrameDone /\ cyc.fault = "none") =>
        /\ cyc.echoTo = cyc.conn
        /\ cyc.echo = cyc.frame
        /\ cyc.toggles = 1

\* C2: in every frame cycle the LED is toggled exactly once if the echo was
\* sent and not at all otherwise; receiving a frame alone never toggles it.
C2_ToggleGatedOnSend ==
    cyc.kind = "frame" => cyc.toggles = (IF cyc.echo # NoFrame THEN 1 ELSE 0)

\* C3: after N successful echoes since boot the LED state is N mod 2.
C3_LedIsEchoParity == Led = echoes % 2

\* C4: text and binary frames are handled alike: a frame that carries a
\* payload and meets no transport fault is echoed with its own opcode and one
\* toggle, whether it is text or binary.
C4_SameOpcodeBothTypes ==
    (FrameDone /\ cyc.fault = "none" /\ cyc.frame.payload # <<>>) =>
        /\ cyc.echo.op = cyc.frame.op
        /\ cyc.toggles = 1

\* C5: after a successful length probe that returned zero the handler still
\* attempts the echo send, or else rejects the frame with an error result.
C5_ZeroLengthNotDropped ==
    (FrameDone /\ cyc.probes = 1 /\ cyc.fault # "probe" /\ cyc.frame.payload = <<>>) =>
        \/ cyc.sends = 1
        \/ cyc.ret # "ESP_OK"

\* C6: on one connection frames are handled one at a time in arrival order:
\* at most one handler invocation is in progress, it is the server task's
\* current one, and until its payload is read the frame it handles is the
\* oldest unread frame of its connection.
C6_NoOverlap ==
    /\ \A c \in Conns :
          /\ running[c] <= 1
          /\ running[c] = 1 =>
                pc # "idle" /\ cur = c /\ cyc.conn = c /\ cyc.ret = "running"
    /\ pc = "idle" => \A c \in Conns : running[c] = 0
    /\ (pc \in {"probe", "read"} /\ conn[cur] = "open") =>
          inbox[cur] # <<>> /\ cyc.frame = Head(inbox[cur])

\* C6 witness: the second frame of connection A waits unread while the echo
\* of its first frame is still to be sent.
C6_Witness == pc = "send" /\ cur = "A" /\ inbox["A"] # <<>>

\* C7: for every frame the client sees its echo, unaltered, or an errored or
\* closed connection; nothing else.
C7_EchoOrError ==
    /\ FrameDone =>
          \/ cyc.echoTo = cyc.conn /\ cyc.echo = cyc.frame
          \/ cyc.fault # "none"
          \/ cyc.ret = "ESP_FAIL"
          \/ conn[cyc.conn] \in {"closing", "closed"}
    /\ cyc.echo # NoFrame => cyc.echo.payload = cyc.frame.payload

\* C8: a frame cycle that fails in the codec (probe, read or decode failure,
\* transport closed) sends no echo and does not toggle the LED.
C8_NoEchoOnCodecFailure ==
    (cyc.fault \in {"probe", "read", "decode"} \/ cyc.kind = "disconnect") =>
        /\ cyc.sends = 0
        /\ cyc.echo = NoFrame
        /\ cyc.toggles = 0

\* C8 witness: a handler invocation has returned after its payload read failed.
C8_Witness == Completed /\ cyc.fault = "read" /\ cyc.probes = 1 /\ cyc.reads = 1

\* C9: every echo goes out on the connection its frame arrived on and carries
\* that frame's payload.
C9_EchoOnOwnConnection ==
    cyc.echo # NoFrame =>
        /\ cyc.echoTo = cyc.conn
        /\ cyc.echo.payload = cyc.frame.payload

\* C9 witness: B's frame has been echoed while a frame of A with another
\* payload, sent in between, is still waiting.
C9_Witness ==
    /\ cyc.conn = "B" /\ cyc.echoTo = "B" /\ cyc.echo # NoFrame
    /\ inbox["A"] # <<>>
    /\ Head(inbox["A"]).payload # cyc.frame.payload

\* C10: the invocation for the upgrade request probes, reads and sends no
\* frame, toggles nothing, reports success and leaves the connection opened.
C10_HandshakeOnlyOpens ==
    cyc.kind = "handshake" =>
        /\ cyc.probes = 0 /\ cyc.reads = 0 /\ cyc.sends = 0
        /\ cyc.echo = NoFrame
        /\ cyc.toggles = 0
        /\ cyc.ret = (IF platform = "idf" THEN "ESP_OK" ELSE "void")
        /\ conn[cyc.conn] \in {"open", "closing", "closed"}

\* C10 witness: the ESP-IDF handler has just returned from the upgrade request.
C10_Witness ==
    /\ platform = "idf" /\ cyc.kind = "handshake" /\ cyc.ret = "ESP_OK"
    /\ conn[cyc.conn] = "open"

C12_LedChangedOnlyByEcho ==
    [][(phase # "boot" /\ (Led' # Led \/ gpio' # gpio)) =>
          /\ cyc'.kind = "frame"
          /\ cyc'.echo # NoFrame
          /\ echoes' = echoes + 1]_vars

\* Some request has been accepted or handled by the server.
Accepted == cyc.kind # "none" \/ \E c \in Conns : conn[c] \in {"open", "http", "closing", "closed"}

C14_OthersNotStalled ==
    \A b \in Conns :
        (pc \in {"probe", "read"} /\ cur # b /\ conn[b] = "open" /\ inbox[b] # <<>>) =>
            ENABLED echo_handler_entry(b)

\* C15: failures and closes are local.  In a step in which the cycle of
\* connection c meets a fault, or in which c is closed, every other
\* connection keeps its status, its unread frames and its handler; once the
\* invocation has returned the server task is free again, and the step sets no
\* state that keeps the server from serving (it leaves the serving phase only
\* when the link is down).
C15_FailuresAreLocal ==
    [][\A c \in Conns :
          (\/ cyc' # cyc /\ cyc'.conn = c /\ cyc'.fault # "none"
           \/ conn'[c] # conn[c] /\ conn'[c] \in {"closing", "closed"}) =>
             /\ \A b \in Conns \ {c} :
                   /\ conn'[b] = conn[b]
                   /\ inbox'[b] = inbox[b]
                   /\ running'[b] = running[b]
             /\ cyc'.ret # "running" => pc' = "idle"
             /\ phase' # phase => LinkLost(wifiUp)]_vars

\* C15 witness: A has been closed; the handler of B, running, holds B's frame
\* unchanged and is about to echo it.
C15_Witness ==
    /\ conn["A"] = "closed" /\ conn["B"] = "open"
    /\ pc = "send" /\ cur = "B" /\ cyc.frame.payload # <<>>
    /\ SubSeq(buf, 1, ws_pkt.len) = cyc.frame.payload

\* C16: from cold boot, once startup has driven the pin, the LED pin is low
\* as long as nothing has been echoed and no connection has been accepted,
\* high after the first successful echo and low again after the second; and
\* when the second echo answers a binary frame it is a binary frame.
C16_OffOnOff ==
    /\ (phase # "boot" /\ ~Accepted) => gpio = 0
    /\ (phase # "boot" /\ echoes = 1) => gpio = 1
    /\ (phase # "boot" /\ echoes = 2) =>
          /\ gpio = 0
          /\ (FrameDone /\ cyc.frame.op = "bin" /\ cyc.fault = "none") =>
                cyc.echo.op = "bin"

\* C17: the two firmware variants behave alike.  For every frame the ESP-IDF
\* handler has dealt with (no receive fault; the send succeeded or failed),
\* the Arduino callback, given the same frame and the same send outcome,
\* sends the same echo and toggles the LED as often.
C17_VariantsAgree ==
    (platform = "idf" /\ FrameDone /\ cyc.fault \in {"none", "send"}) =>
        LET eff == webSocketEvent(cyc.conn, WStypeOf(cyc.frame.op), cyc.frame.payload,
                                  Len(cyc.frame.payload), 0, cyc.fault # "send")
        IN /\ eff.echo = cyc.echo
           /\ eff.echoTo = cyc.echoTo
           /\ eff.toggles = cyc.toggles

C19_TwoPhaseReceive ==
    /\ cyc.reads <= cyc.probes /\ cyc.probes <= 1
    /\ pc = "read" =>
          /\ cyc.probes = 1 /\ cyc.reads = 0
          /\ ws_pkt.len = Len(cyc.frame.payload) /\ ws_pkt.len > 0
          /\ Len(buf) = ws_pkt.len + 1
          /\ \A i \in 1..Len(buf) : buf[i] = 0
    /\ pc = "send" =>
          /\ cyc.probes = 1 /\ cyc.reads = 1
          /\ ws_pkt.len = Len(cyc.frame.payload)
          /\ Len(buf) = ws_pkt.len + 1
          /\ SubSeq(buf, 1, ws_pkt.len) = cyc.frame.payload
          /\ buf[Len(buf)] = 0
          /\ ws_pkt.type = cyc.frame.op

\* C19 witness: a two-byte payload has been read into its three-byte buffer.
C19_Witness ==
    /\ pc = "send" /\ ws_pkt.len = 2 /\ Len(buf) = 3
    /\ buf[1] # 0 /\ buf[2] # 0 /\ buf[3] = 0

BurstHandled ==
    /\ phase = "serving" /\ pc = "idle"
    /\ \A c \in Conns : inbox[c] = <<>> /\ conn[c] \notin {"closing", "closed"}

\* C21: a burst of N messages yields exactly N writes to the LED pin, each in
\* the cycle of its message, and the written levels alternate on, off, on, ...
\* from off: whenever the server has dealt with the N frames sent so far, the
\* pin and the LED state are N mod 2.
C21_BurstAlternates ==
    BurstHandled => (gpio = nsent % 2 /\ Led = nsent % 2)

\* C22: the ESP-IDF handler returns ESP_OK exactly when no step failed, and
\* otherwise the error of the first failing step, after which it performs no
\* later step: no read after a failed probe, no send after a failed read, no
\* toggle after a failed send.  The handler does not close the connection: a
\* step of the handler changes the connection's status only by returning an
\* error to the server.
C22_FirstErrorReturned ==
    /\ []((platform = "idf" /\ FrameDone) =>
            /\ cyc.ret = "ESP_OK" <=> cyc.fault = "none"
            /\ cyc.fault = "probe" =>
                  (cyc.probes = 1 /\ cyc.reads = 0 /\ cyc.sends = 0 /\ cyc.toggles = 0)
            /\ cyc.fault = "read" =>
                  (cyc.probes = 1 /\ cyc.reads = 1 /\ cyc.sends = 0 /\ cyc.toggles = 0)
            /\ cyc.fault = "send" =>
                  (cyc.probes = 1 /\ cyc.reads = 1 /\ cyc.sends = 1 /\ cyc.toggles = 0))
    /\ [][(pc # "idle" /\ cyc' # cyc) =>
            /\ cyc'.ret = "running" => conn' = conn
            /\ conn' # conn =>
                  /\ cyc'.ret = "ESP_FAIL"
                  /\ conn' = [conn EXCEPT ![cur] = "closed"]]_vars

\* C22 witness: the handler has returned the error of a failed echo send,
\* after a successful probe and read, and the server has closed the session.
C22_Witness ==
    /\ platform = "idf" /\ FrameDone /\ cyc.fault = "send" /\ cyc.ret = "ESP_FAIL"
    /\ cyc.sends = 1 /\ conn[cyc.conn] = "closed"

\* The echo each firmware gives a frame whose cycle meets no fault, as a
\* function of that frame alone: echo_handler sends the frame back unless it
\* is empty, webSocketEvent sends the payload of a text frame back as text.
EchoOf(pf, f) ==
    IF pf = "idf"
    THEN IF HasPayload(Len(f.payload)) THEN f ELSE NoFrame
    ELSE IF WStypeOf(f.op) = "WStype_TEXT" THEN [op |-> "text", payload |-> f.payload]
         ELSE NoFrame

\* C23: the handler is stateless across messages.  What is echoed for a frame
\* is a function of that frame alone, whatever frames were handled before,
\* whatever the LED state is and whatever other connections do; a cycle that
\* meets a fault echoes nothing or that same frame; and between invocations
\* the handler keeps no frame: its packet and buffer are empty.
C23_EchoDependsOnFrameOnly ==
    /\ (FrameDone /\ cyc.fault = "none") => cyc.echo = EchoOf(platform, cyc.frame)
    /\ cyc.echo # NoFrame => cyc.echo = EchoOf(platform, cyc.frame)
    /\ pc = "idle" => (ws_pkt = InitPkt /\ buf = <<>>)

\* C23 witness: B's binary frame has been echoed while the LED was on from an
\* earlier echo and A's connection is open.
C23_Witness ==
    /\ FrameDone /\ cyc.conn = "B" /\ cyc.frame.op = "bin" /\ cyc.echo = cyc.frame
    /\ echoes = 2 /\ Led = 0 /\ conn["A"] = "open"

\* C24: once startup has driven the LED pin, the LED state the firmware holds
\* equals the level last written to the pin: both are off when the server
\* starts, and they are equal after every step of every handler invocation.
C24_StateMatchesPin ==
    /\ phase # "boot" => gpio = Led
    /\ (phase \in {"attach", "halted"} \/ cyc = NoCycle) => Led = 0

\* C24 witness: the LED has been switched on and off again by two echoes.
C24_Witness ==
    /\ phase = "serving" /\ echoes = 2 /\ cyc.toggles = 1
    /\ Led = 0 /\ gpio = 0

\* The Arduino sketch is inside connectToWiFi.
InConnect == platform = "arduino" /\ phase \in {"attach", "reattach"}

\* C25: connectToWiFi always terminates.  Inside the routine every step is
\* one poll, which either counts one more retry, of at most MAX_RETRIES, with
\* the link down, or returns to serving, with the link up or not; no frame is
\* handled meanwhile; the sketch is always outside the routine again later
\* (the routine returns).  While serving, every iteration of
\* loop() that finds the link down calls the routine again.
C25_ConnectTerminates ==
    /\ [](InConnect => retryCount <= MAX_RETRIES)
    /\ [][InConnect =>
            /\ cyc' = cyc /\ conn' = conn /\ inbox' = inbox
            /\ \/ /\ retryCount < MAX_RETRIES /\ retryCount' = retryCount + 1
                  /\ ~wifiUp' /\ phase' = phase
               \/ /\ phase' = "serving" /\ retryCount' = 0
                  /\ (~wifiUp' => retryCount = MAX_RETRIES)]_vars
    /\ [][(platform = "arduino" /\ phase = "serving" /\ ~wifiUp /\ wifiUp' = wifiUp) =>
            (phase' = "reattach" /\ retryCount' = 0 /\ attaches' = attaches + 1)]_vars
    /\ []<>(~InConnect)

\* C25 witness: called from loop(), the routine has waited MAX_RETRIES times
\* with the link down and is about to return.
C25_Witness ==
    /\ InConnect /\ phase = "reattach" /\ retryCount = MAX_RETRIES /\ ~wifiUp
    /\ \E c \in Conns : conn[c] = "open" /\ inbox[c] # <<>>

====
